---- MODULE Spec2Model ----
(***************************************************************************)
(* A model of tensor.py: the Tensor result (descriptor + data, validated   *)
(* by Tensor.filter), the _Op construction protocol, and the Subtensor,    *)
(* Argmax, Dot and Gemm ops.                                               *)
(*                                                                         *)
(* Array elements of the Tensor-data part are integers counting HALVES     *)
(* (3 stands for 1.5), so that a float64 -> int64 cast is a real           *)
(* conversion (truncation toward zero) and not the identity.               *)
(***************************************************************************)
EXTENDS Integers, Sequences, FiniteSets, TLC

\* ------------------------------------------------------------- bounds
MaxRank == 2      \* longest broadcastable pattern / array rank of the data part
MaxDim == 2       \* largest axis size of a host array
MaxElems == 2     \* largest number of elements of a host array
MaxInputs == 3    \* longest list of input dtypes handed to propagate_dtype
MaxNout == 2      \* largest nout of an op class
MaxPat == 3       \* longest broadcastable pattern of an op's input
MaxArgs == 3      \* most positional arguments handed to Dot
MaxMatElems == 4  \* largest number of elements of a Gemm operand
MaxIdx == 2       \* longest index tuple handed to Subtensor
MaxViews == 2     \* most Subtensor outputs the caller keeps before building a Gemm
MaxScalarPat == 1 \* longest pattern tried for a scalar argument (Gemm's a, b; an axis)
MaxAxis == 1      \* largest host integer handed to Argmax as axis
MaxHostRank == 1  \* highest rank of a host array or pattern handed to astensor
MaxKDim == 2      \* largest dimension of a matrix handed to the native kernel
MaxStride == 2    \* largest stride, in elements, of such a matrix
MaxMade == 2      \* most Tensors the caller makes with the constructor functions

\* ------------------------------------------------------------- helpers
RECURSIVE SeqsUpTo(_, _)
SeqsUpTo(S, n) ==
    IF n = 0 THEN {<<>>}
    ELSE LET shorter == SeqsUpTo(S, n - 1)
         IN  shorter \cup {Append(s, e) : s \in {t \in shorter : Len(t) = n - 1}, e \in S}

RECURSIVE Prod(_)
Prod(s) == IF s = <<>> THEN 1 ELSE Head(s) * Prod(Tail(s))

Dtypes == {"int64", "float64"}

Patterns(n) == SeqsUpTo(BOOLEAN, n)

\* numpy ndarrays: dtype, shape, and the elements flattened in row-major order
NoneArr == [dtype |-> "None", shape |-> <<>>, elems |-> <<>>]

Shapes == {s \in SeqsUpTo(0..MaxDim, MaxRank) : Prod(s) <= MaxElems}

ElemVals(dt) == IF dt = "int64" THEN {-2, 2} ELSE {-3, 2}

HostArrays ==
    {[dtype |-> dt, shape |-> s, elems |-> e] :
        dt \in Dtypes, s \in Shapes, e \in SeqsUpTo({-3, -2, 2}, MaxElems)}

IsArray(a) ==
    /\ Len(a.elems) = Prod(a.shape)
    /\ \A k \in 1..Len(a.elems) : a.elems[k] \in ElemVals(a.dtype)

Arrays == {a \in HostArrays : IsArray(a)}

\* ------------------------------------------------------------- Tensor
\* numpy's cast of one element (halves) to a dtype: float -> int truncates
\* toward zero, int -> float is exact.
CastElem(v, dt) ==
    IF dt = "int64"
    THEN IF v >= 0 THEN 2 * (v \div 2) ELSE -(2 * ((-v) \div 2))
    ELSE v

\* numpy.asarray(arr, dtype = dt)
AsArray(a, dt) ==
    [dtype |-> dt, shape |-> a.shape,
     elems |-> [k \in 1..Len(a.elems) |-> CastElem(a.elems[k], dt)]]

E_rank == "wrong rank"
E_shape == "non-unit size on broadcastable dimension"

\* filter with the broadcastable-axis loop left out
filter_noShapeCheck(self, arr) ==
    LET a == IF arr.dtype = self.dtype THEN arr ELSE AsArray(arr, self.dtype)
    IN  IF Len(self.broadcastable) # Len(a.shape)
        THEN [raised |-> E_rank, rval |-> NoneArr]
        ELSE [raised |-> "", rval |-> a]

Min(m, n) == IF m <= n THEN m ELSE n

\* filter with the two checks in the other order (the loop zips the two tuples)
filter_shapeFirst(self, arr) ==
    LET a == IF arr.dtype = self.dtype THEN arr ELSE AsArray(arr, self.dtype)
    IN  IF \E i \in 1..Min(Len(self.broadcastable), Len(a.shape)) :
               self.broadcastable[i] /\ a.shape[i] # 1
        THEN [raised |-> E_shape, rval |-> NoneArr]
        ELSE IF Len(self.broadcastable) # Len(a.shape)
             THEN [raised |-> E_rank, rval |-> NoneArr]
             ELSE [raised |-> "", rval |-> a]

\* Tensor.filter: the exception raised ("" when none) and the value returned
filter(self, arr) ==
    LET a == IF arr.dtype = self.dtype THEN arr ELSE AsArray(arr, self.dtype)
    IN  IF Len(self.broadcastable) # Len(a.shape)
        THEN [raised |-> E_rank, rval |-> NoneArr]
        ELSE IF \E i \in 1..Len(a.shape) : self.broadcastable[i] /\ a.shape[i] # 1
             THEN [raised |-> E_shape, rval |-> NoneArr]
             ELSE [raised |-> "", rval |-> a]

Descriptors(n) == [dtype : Dtypes, broadcastable : Patterns(n)]

VARIABLES
    self,       \* the Tensor r: its descriptor [dtype, broadcastable]
    data,       \* r.data: NoneArr or an ndarray
    raised,     \* what the last operation raised ("" when it returned)
    arr,        \* filter's argument (SpecFilter)
    rval,       \* filter's return value (SpecFilter)
    nout,               \* the op class's nout
    i_dtypes,           \* _Op.__init__'s i_dtypes ("None" for a non-Tensor input)
    o_dtypes,           \* what propagate_dtype returned
    i_broadcastables,   \* _Op.__init__'s i_broadcastables
    o_broadcastables,   \* what propagate_broadcastable returned
    tensors,    \* the Tensors the caller holds, in order of creation
    kdata,      \* the payload of k, an index Result the caller holds
    op,         \* the op under construction / last constructed
    mem,        \* the ndarray buffers of Gemm's z, x, y, by buffer identity
    call,       \* Gemm.impl's arguments, z's content before the call, and its return
    fcall,      \* the last call of a module-level function: its arguments and return
    kern        \* the native Gemm kernel: its operands and how far it got

tensorVars == <<self, data, arr, rval>>
propVars == <<nout, i_dtypes, o_dtypes, i_broadcastables, o_broadcastables>>

graphVars == <<tensors, kdata, op>>

gemmVars == <<mem, call>>

extVars == <<fcall, kern>>

vars == <<raised, tensorVars, propVars, graphVars, gemmVars, extVars>>

NoCall == [z |-> 0, a |-> NoneArr, x |-> 0, y |-> 0, b |-> NoneArr,
           z0 |-> NoneArr, ret |-> 0]

GemmIdle ==
    /\ mem = <<>>
    /\ call = NoCall

NoFcall == [fn |-> "None", data |-> [kind |-> "None", t |-> 0, arr |-> NoneArr],
            broadcastable |-> [kind |-> "None", v |-> <<>>], name |-> "None", ret |-> 0]

NoOperand == [nd |-> 0, type_num |-> "None", dimensions |-> <<>>, strides |-> <<>>,
              data |-> <<>>]

NoGemmCall == [fn |-> "None", transa |-> "", transb |-> "", m |-> 0, n |-> 0, k |-> 0,
               A |-> "", lda |-> 0, B |-> "", ldb |-> 0, ldc |-> 0]

\* the kernel's operands (PyArrayObjects), the output slot zout, the local
\* unit, the error set, the gemm call issued, and z's buffer on entry
NoKern == [pc |-> "None", x |-> NoOperand, y |-> NoOperand, z |-> NoOperand,
           a |-> NoOperand, b |-> NoOperand, zout |-> "NULL", unit |-> 0, err |-> "",
           gemm |-> NoGemmCall, z0 |-> <<>>]

ExtIdle ==
    /\ fcall = NoFcall
    /\ kern = NoKern

\* the index Result among a Subtensor's inputs: k itself (its payload is
\* kdata) or a new PythonResult with its payload
NoIndex == [ref |-> "None", data |-> <<>>]

NoCoord == [kind |-> "None", data |-> <<>>]

\* an op: its class; the constructor's arguments (args: the Tensors, as indices
\* into tensors; coord: the index handed to Subtensor or the axis handed to
\* Argmax; k0: k's payload on entry); self.inputs (indices into tensors; a Subtensor's second input is
\* index); self.outputs (the Tensors it created); and whether self.inputs /
\* self.outputs have been assigned
NoOp == [cls |-> "None", args |-> <<>>, coord |-> NoCoord, k0 |-> <<>>,
         inputs |-> <<>>, index |-> NoIndex, outputs |-> <<>>, installed |-> FALSE]

\* the parts of the state a specification does not use stay at these values
TensorIdle ==
    /\ self = [dtype |-> "float64", broadcastable |-> <<>>]
    /\ data = NoneArr
    /\ arr = NoneArr
    /\ rval = NoneArr

GraphIdle ==
    /\ tensors = <<>>
    /\ kdata = <<>>
    /\ op = NoOp

PropIdle ==
    /\ nout = 1
    /\ i_dtypes = <<>>
    /\ o_dtypes = <<>>
    /\ i_broadcastables = <<>>
    /\ o_broadcastables = <<>>

\* ------------------------------------------------- Spec: r.data = a
Init ==
    /\ self \in Descriptors(MaxRank)
    /\ data = NoneArr
    /\ raised = ""
    /\ arr = NoneArr
    /\ rval = NoneArr
    /\ PropIdle
    /\ GraphIdle
    /\ GemmIdle
    /\ ExtIdle

\* r.data = a: runs filter(a); stores the validated buffer on success, and
\* leaves data as it was when filter raises.
SetData(a) ==
    LET f == filter(self, a)
    IN  /\ raised' = f.raised
        /\ data' = IF f.raised = "" THEN f.rval ELSE data
        /\ UNCHANGED <<self, arr, rval, propVars, graphVars, gemmVars, extVars>>

Next == \E a \in Arrays : SetData(a)

Spec == Init /\ [][Next]_vars

\* ------------------------------------------------- SpecFilter: filter(arr)
InitFilter ==
    /\ self \in Descriptors(MaxRank)
    /\ arr \in Arrays
    /\ data = NoneArr
    /\ raised = "not called"
    /\ rval = NoneArr
    /\ PropIdle
    /\ GraphIdle
    /\ GemmIdle
    /\ ExtIdle

CallFilter ==
    /\ raised = "not called"
    /\ raised' = filter(self, arr).raised
    /\ rval' = filter(self, arr).rval
    /\ UNCHANGED <<self, data, arr, propVars, graphVars, gemmVars, extVars>>

NextFilter == CallFilter

SpecFilter == InitFilter /\ [][NextFilter]_vars

\* ------------------------------------------------- _Op.propagate_dtype
E_no_tensor == "Cannot infer the dtypes of the outputs with no Tensor inputs."
E_identical == "The dtypes of all inputs should be identical."

\* [e] * n
Repeat(e, n) == [k \in 1..n |-> e]

\* propagate_dtype returning one entry per input instead of one per output
propagate_dtype_perInput(n_out, dtypes) ==
    LET s == {dtypes[k] : k \in 1..Len(dtypes)} \ {"None"}
    IN  IF Cardinality(s) = 0 THEN [raised |-> E_no_tensor, rval |-> <<>>]
        ELSE IF Cardinality(s) > 1 THEN [raised |-> E_identical, rval |-> <<>>]
        ELSE [raised |-> "", rval |-> Repeat(CHOOSE d \in s : TRUE, Len(dtypes))]

\* _Op.propagate_dtype(self, *i_dtypes), self.nout = n_out
propagate_dtype(n_out, dtypes) ==
    LET s == {dtypes[k] : k \in 1..Len(dtypes)} \ {"None"}
    IN  IF Cardinality(s) = 0 THEN [raised |-> E_no_tensor, rval |-> <<>>]
        ELSE IF Cardinality(s) > 1 THEN [raised |-> E_identical, rval |-> <<>>]
        ELSE [raised |-> "", rval |-> Repeat(CHOOSE d \in s : TRUE, n_out)]

InitDtype ==
    /\ nout \in 1..MaxNout
    /\ i_dtypes \in SeqsUpTo(Dtypes \cup {"None"}, MaxInputs)
    /\ o_dtypes = <<>>
    /\ i_broadcastables = <<>>
    /\ o_broadcastables = <<>>
    /\ raised = "not called"
    /\ TensorIdle
    /\ GraphIdle
    /\ GemmIdle
    /\ ExtIdle

CallPropagateDtype ==
    /\ raised = "not called"
    /\ raised' = propagate_dtype(nout, i_dtypes).raised
    /\ o_dtypes' = propagate_dtype(nout, i_dtypes).rval
    /\ UNCHANGED <<nout, i_dtypes, i_broadcastables, o_broadcastables, tensorVars, graphVars, gemmVars, extVars>>

NextDtype == CallPropagateDtype

SpecDtype == InitDtype /\ [][NextDtype]_vars

\* ------------------------------------------------- Dot, Gemm: shape rules
Max(m, n) == IF m >= n THEN m ELSE n

\* Python's s[lo:hi] for integer bounds, negative ones counted from the end
PySlice(s, lo, hi) ==
    LET n == Len(s)
        norm(i) == IF i < 0 THEN Max(i + n, 0) ELSE Min(i, n)
    IN  SubSeq(s, norm(lo) + 1, norm(hi))

\* s[:hi] and s[lo:]
PyUpTo(s, hi) == PySlice(s, 0, hi)
PyFrom(s, lo) == PySlice(s, lo, Len(s))

\* broadcastable_rule keeping all of by but its last axis (by[:-1] for by[:-2])
broadcastable_rule_keepAxis(bx, by) ==
    IF Len(bx) = 0 THEN by
    ELSE IF Len(by) >= 2 THEN PyUpTo(bx, -1) \o PyUpTo(by, -1) \o PyFrom(by, -1)
         ELSE IF Len(by) = 1 THEN PyUpTo(bx, -1)
              ELSE bx

\* Dot.broadcastable_rule(bx, by)
broadcastable_rule(bx, by) ==
    IF Len(bx) = 0 THEN by
    ELSE IF Len(by) >= 2 THEN PyUpTo(bx, -1) \o PyUpTo(by, -2) \o PyFrom(by, -1)
         ELSE IF Len(by) = 1 THEN PyUpTo(bx, -1)
              ELSE bx

Gemm_E_rank == "gemm only works for rank 2"
Gemm_E_scalar == "gemm requires scalar argument"
Gemm_E_z_uniq == "argument z aliased to x or y"

\* propagate_broadcastable with the scalar checks ahead of the rank checks
Gemm_propagate_broadcastable_scalarFirst(bz, ba, bx, by, bb) ==
    IF Len(ba) # 0 THEN [raised |-> Gemm_E_scalar, rval |-> <<>>]
    ELSE IF Len(bb) # 0 THEN [raised |-> Gemm_E_scalar, rval |-> <<>>]
    ELSE IF Len(bz) # 2 THEN [raised |-> Gemm_E_rank, rval |-> <<>>]
    ELSE IF Len(bx) # 2 THEN [raised |-> Gemm_E_rank, rval |-> <<>>]
    ELSE IF Len(by) # 2 THEN [raised |-> Gemm_E_rank, rval |-> <<>>]
    ELSE [raised |-> "", rval |-> <<bz>>]

\* Gemm.propagate_broadcastable(bz, ba, bx, by, bb)
Gemm_propagate_broadcastable(bz, ba, bx, by, bb) ==
    IF Len(bz) # 2 THEN [raised |-> Gemm_E_rank, rval |-> <<>>]
    ELSE IF Len(bx) # 2 THEN [raised |-> Gemm_E_rank, rval |-> <<>>]
    ELSE IF Len(by) # 2 THEN [raised |-> Gemm_E_rank, rval |-> <<>>]
    ELSE IF Len(ba) # 0 THEN [raised |-> Gemm_E_scalar, rval |-> <<>>]
    ELSE IF Len(bb) # 0 THEN [raised |-> Gemm_E_scalar, rval |-> <<>>]
    ELSE [raised |-> "", rval |-> <<bz>>]

\* ------------------------------------------------- _Op.__init__
Nin(cls) == IF cls = "Dot" THEN 2 ELSE 5
Nout(cls) == 1

E_nin == "Wrong number of inputs"

\* self.propagate_broadcastable(*i_broadcastables) of the op class
propagate_broadcastable(cls, ib) ==
    IF cls = "Dot"
    THEN [raised |-> "", rval |-> <<broadcastable_rule(ib[1], ib[2])>>]
    ELSE Gemm_propagate_broadcastable(ib[1], ib[2], ib[3], ib[4], ib[5])

\* Tensor(dtype, broadcastable) with no data yet; owner and inputs are set when
\* an op of class cls over those Tensor inputs installs it as an output
NewTensor(dt, b, cls, inputs) ==
    [dtype |-> dt, broadcastable |-> b, name |-> "None", owner |-> cls,
     inputs |-> inputs, data |-> NoneArr]

\* a Tensor no op owns
Leaf(d) == NewTensor(d.dtype, d.broadcastable, "None", <<>>)

\* _Op.__init__(self, *inputs) for an op of class cls, the inputs Tensors
\* already (astensor returns them as they are): every local it computes, what
\* it raises, and the op's fields when it returns.
OpInit(cls, args) ==
    LET ib == [k \in 1..Len(args) |-> tensors[args[k]].broadcastable]
        id == [k \in 1..Len(args) |-> tensors[args[k]].dtype]
        pb == propagate_broadcastable(cls, ib)
        pd == propagate_dtype(Nout(cls), id)
        none == [raised |-> "", ib |-> <<>>, id |-> <<>>, ob |-> <<>>, od |-> <<>>,
                 op |-> [NoOp EXCEPT !.cls = cls, !.args = args]]
    IN  IF Nin(cls) >= 0 /\ Len(args) # Nin(cls)
        THEN [none EXCEPT !.raised = E_nin]
        ELSE IF pb.raised # ""
        THEN [none EXCEPT !.raised = pb.raised, !.ib = ib, !.id = id]
        ELSE IF pd.raised # ""
        THEN [none EXCEPT !.raised = pd.raised, !.ib = ib, !.id = id, !.ob = pb.rval]
        ELSE LET n == Min(Len(pb.rval), Len(pd.rval))
             IN  [raised |-> "", ib |-> ib, id |-> id, ob |-> pb.rval, od |-> pd.rval,
                  op |-> [NoOp EXCEPT
                             !.cls = cls, !.args = args, !.inputs = args,
                             !.outputs = [k \in 1..n |->
                                             NewTensor(pd.rval[k], pb.rval[k], cls, args)],
                             !.installed = TRUE]]

\* ------------------------------------------------- SpecDot: Dot(x, y)
InitDot ==
    /\ tensors \in [1..2 -> {Leaf(d) : d \in Descriptors(MaxPat)}]
    /\ kdata = <<>>
    /\ op = NoOp
    /\ raised = "not called"
    /\ PropIdle
    /\ TensorIdle
    /\ GemmIdle
    /\ ExtIdle

\* Dot(*args): Dot defines no __init__ of its own
ConstructDot(args) ==
    LET r == OpInit("Dot", args)
    IN  /\ op = NoOp
        /\ raised' = r.raised
        /\ i_broadcastables' = r.ib
        /\ i_dtypes' = r.id
        /\ o_broadcastables' = r.ob
        /\ o_dtypes' = r.od
        /\ op' = r.op
        /\ UNCHANGED <<tensors, kdata, nout, tensorVars, gemmVars, extVars>>

NextDot == \E args \in SeqsUpTo(1..2, MaxArgs) : ConstructDot(args)

SpecDot == InitDot /\ [][NextDot]_vars

\* ------------------------------------------------- Subtensor.__init__
\* index entries: an integer, or slice(start, stop, step)
IntEntry(i) == [kind |-> "int", start |-> i, stop |-> 0, step |-> 0]
SliceEntry(a, b, c) == [kind |-> "slice", start |-> a, stop |-> b, step |-> c]

sys_maxint == 2147483647

Entries == {IntEntry(0), SliceEntry(0, 1, 1)}

\* what the caller passes as the index: the Result k, a tuple of entries, or
\* a bare entry (data holds just that entry)
CoordArgs ==
    {[kind |-> "Result", data |-> <<>>]}
    \cup {[kind |-> "tuple", data |-> t] : t \in SeqsUpTo(Entries, MaxIdx)}
    \cup {[kind |-> "object", data |-> <<e>>] : e \in Entries}

\* as_tuple_result wrapping a bare entry as an empty tuple
as_tuple_result_bare(obj) ==
    IF obj.kind = "Result" THEN [ref |-> "k", data |-> kdata]
    ELSE IF obj.kind = "tuple" THEN [ref |-> "new", data |-> obj.data]
    ELSE [ref |-> "new", data |-> <<>>]

\* as_tuple_result(obj): a Result is returned as it is; anything else is put in
\* a new PythonResult, a tuple as it is and another object as a 1-tuple
as_tuple_result(obj) ==
    IF obj.kind = "Result" THEN [ref |-> "k", data |-> kdata]
    ELSE IF obj.kind = "tuple" THEN [ref |-> "new", data |-> obj.data]
    ELSE [ref |-> "new", data |-> <<obj.data[1]>>]

\* pad putting the unbounded slices in front of the entries
pad_front(d, N) ==
    [i \in 1..(IF N > Len(d) THEN N - Len(d) ELSE 0) |-> SliceEntry(0, sys_maxint, 1)] \o d

\* pad(tplR, N): the payload tplR.data is set to
pad(d, N) ==
    d \o [i \in 1..(IF N > Len(d) THEN N - Len(d) ELSE 0) |-> SliceEntry(0, sys_maxint, 1)]

e_invalid == "invalid index"

\* the flags with the integer entries' axes not dropped
SliceFlags_keepInts(d) == [i \in 1..Len(d) |-> FALSE]

\* [0 for c in coord.data if isinstance(c, slice)]
RECURSIVE SliceFlags(_)
SliceFlags(d) ==
    IF d = <<>> THEN <<>>
    ELSE (IF Head(d).kind = "slice" THEN <<FALSE>> ELSE <<>>) \o SliceFlags(Tail(d))


\* Subtensor.__init__(self, t, coord): what it raises, the op's fields, and the
\* payload of k afterwards
SubtensorInit(t, c) ==
    LET coord == as_tuple_result(c)
        N == Len(tensors[t].broadcastable)
        padded == pad(coord.data, N)
        called == [NoOp EXCEPT !.cls = "Subtensor", !.args = <<t>>, !.coord = c,
                               !.k0 = kdata]
    IN  IF Len(coord.data) > N
        THEN [raised |-> e_invalid, op |-> called, kdata |-> kdata]
        ELSE [raised |-> "",
              op |-> [called EXCEPT
                         !.inputs = <<t>>,
                         !.index = [ref |-> coord.ref,
                                    data |-> IF coord.ref = "k" THEN <<>> ELSE padded],
                         !.outputs = <<NewTensor(tensors[t].dtype, SliceFlags(padded),
                                                 "Subtensor", <<t>>)>>,
                         !.installed = TRUE],
              kdata |-> IF coord.ref = "k" THEN padded ELSE kdata]

\* Subtensor(t, c), the op kept and its output dropped
ConstructSubtensor(t, c) ==
    LET r == SubtensorInit(t, c)
    IN  /\ raised' = r.raised
        /\ op' = r.op
        /\ kdata' = r.kdata
        /\ UNCHANGED <<tensors, tensorVars, propVars, gemmVars, extVars>>

\* v = subtensor(t, c): the caller keeps the output, a view of t
KeepView(t, c) ==
    LET r == SubtensorInit(t, c)
    IN  /\ op.cls # "Gemm"
        /\ Len(tensors) < 3 + MaxViews
        /\ raised' = r.raised
        /\ op' = r.op
        /\ kdata' = r.kdata
        /\ tensors' = IF r.raised = "" THEN tensors \o r.op.outputs ELSE tensors
        /\ UNCHANGED <<tensorVars, propVars, gemmVars, extVars>>

\* ------------------------------------------------- Gemm.__init__
\* owner.view_map()[r]: Subtensor.view_map is {self.out: [self.inputs[0]]};
\* no other class here declares views
view_map(t) == IF t.owner = "Subtensor" THEN <<t.inputs[1]>> ELSE <<>>

\* gof.view_roots(r): the non-view ancestors of tensors[r]
RECURSIVE view_roots(_)
view_roots(r) ==
    IF view_map(tensors[r]) = <<>> THEN {r}
    ELSE view_roots(view_map(tensors[r])[1])

\* Gemm.__init__ checking z against x only
GemmInit_onlyX(args) ==
    LET r == OpInit("Gemm", args)
    IN  IF r.raised # "" THEN [raised |-> r.raised, op |-> r.op]
        ELSE IF view_roots(r.op.inputs[1]) \cap view_roots(r.op.inputs[3]) # {}
             THEN [raised |-> Gemm_E_z_uniq, op |-> r.op]
             ELSE [raised |-> "", op |-> r.op]

\* Gemm.__init__(self, *args): _Op.__init__, then the check of z against x, y
GemmInit(args) ==
    LET r == OpInit("Gemm", args)
    IN  IF r.raised # "" THEN [raised |-> r.raised, op |-> r.op]
        ELSE LET zr == view_roots(r.op.inputs[1])
                 xr == view_roots(r.op.inputs[3])
                 yr == view_roots(r.op.inputs[4])
             IN  IF zr \cap xr # {} THEN [raised |-> Gemm_E_z_uniq, op |-> r.op]
                 ELSE IF zr \cap yr # {} THEN [raised |-> Gemm_E_z_uniq, op |-> r.op]
                 ELSE [raised |-> "", op |-> r.op]

\* Gemm(*args)
ConstructGemm(args) ==
    LET r == GemmInit(args)
    IN  /\ op.cls # "Gemm"
        /\ raised' = r.raised
        /\ op' = r.op
        /\ UNCHANGED <<tensors, kdata, tensorVars, propVars, gemmVars, extVars>>

\* ------------------------------------------------- SpecSubtensor
\* the caller holds two Tensors, the second a float64 one without
\* broadcastable axes, and the Result k
InitSubtensor ==
    /\ \E d \in Descriptors(MaxRank) : \E r \in 0..MaxRank :
          tensors = <<Leaf(d), Leaf([dtype |-> "float64",
                                     broadcastable |-> [i \in 1..r |-> FALSE]])>>
    /\ kdata \in SeqsUpTo(Entries, MaxIdx)
    /\ op = NoOp
    /\ raised = "not called"
    /\ PropIdle
    /\ TensorIdle
    /\ GemmIdle
    /\ ExtIdle

NextSubtensor == \E t \in 1..2 : \E c \in CoordArgs : ConstructSubtensor(t, c)

SpecSubtensor == InitSubtensor /\ [][NextSubtensor]_vars

\* ------------------------------------------------- SpecGemmShape
InitGemmShape ==
    /\ \E bz, bx, by \in Patterns(MaxRank) : \E ba, bb \in Patterns(MaxScalarPat) :
          tensors = [k \in 1..5 |->
                        Leaf([dtype |-> "float64",
                              broadcastable |-> <<bz, ba, bx, by, bb>>[k]])]
    /\ kdata = <<>>
    /\ op = NoOp
    /\ raised = "not called"
    /\ PropIdle
    /\ TensorIdle
    /\ GemmIdle
    /\ ExtIdle

NextGemmShape == ConstructGemm(<<1, 2, 3, 4, 5>>)

SpecGemmShape == InitGemmShape /\ [][NextGemmShape]_vars

\* ------------------------------------------------- SpecGemmBuild
\* the caller holds a scalar s and two more Tensors, takes views of what it
\* holds, and builds gemm(z, s, x, y, s)
InitGemmBuild ==
    /\ \E p \in {<<FALSE, FALSE>>, <<TRUE, FALSE>>} :
       \E d \in {[dtype |-> "float64", broadcastable |-> <<FALSE, FALSE>>],
                  [dtype |-> "int64", broadcastable |-> <<FALSE, FALSE>>],
                  [dtype |-> "float64", broadcastable |-> <<FALSE>>]} :
          tensors = <<Leaf([dtype |-> "float64", broadcastable |-> <<>>]),
                      Leaf([dtype |-> "float64", broadcastable |-> p]),
                      Leaf(d)>>
    /\ kdata = <<>>
    /\ op = NoOp
    /\ raised = "not called"
    /\ PropIdle
    /\ TensorIdle
    /\ GemmIdle
    /\ ExtIdle

NextGemmBuild ==
    \/ \E t \in 1..Len(tensors) :
          \E c \in {[kind |-> "tuple", data |-> <<>>],
                     [kind |-> "object", data |-> <<IntEntry(0)>>]} : KeepView(t, c)
    \/ \E z, x, y \in 1..Len(tensors) : ConstructGemm(<<z, 1, x, y, 1>>)

SpecGemmBuild == InitGemmBuild /\ [][NextGemmBuild]_vars

\* ------------------------------------------------- Argmax.__init__
\* the axis argument: omitted (None), a host integer, or the Tensor tensors[2]
AxisArgs ==
    {[kind |-> "None", data |-> <<>>], [kind |-> "Tensor", data |-> <<>>]}
    \cup {[kind |-> "int", data |-> <<v>>] : v \in -1..MaxAxis}

\* [e] * n: a list of n copies of e, the empty list when n is negative
PyListMul(e, n) == [i \in 1..(IF n < 0 THEN 0 ELSE n) |-> e]

\* astensor(v) for a host integer v: numpy.asarray(v) is an int64 array of shape
\* (), the pattern [s == 1 for s in shape] is (), and assigning data filters it
astensor(v) ==
    LET a == [dtype |-> "int64", shape |-> <<>>, elems |-> <<2 * v>>]
        b == [i \in 1..Len(a.shape) |-> a.shape[i] = 1]
        f == filter([dtype |-> a.dtype, broadcastable |-> b], a)
    IN  [NewTensor(a.dtype, b, "None", <<>>) EXCEPT !.data = f.rval]

\* Argmax.__init__(self, x, axis): x is tensors[1]; the Tensors afterwards, and
\* the op
ArgmaxInit(ax) ==
    LET x == tensors[1]
        axis == IF ax.kind = "None" THEN [kind |-> "int",
                                          data |-> <<Len(x.broadcastable) - 1>>]
                ELSE ax
        made == axis.kind = "int"
        pool == IF made THEN Append(tensors, astensor(axis.data[1])) ELSE tensors
        k == IF made THEN Len(pool) ELSE 2
        broadcastable == PyListMul(FALSE, Len(x.broadcastable) - 1)
    IN  [raised |-> "",
         tensors |-> pool,
         op |-> [NoOp EXCEPT
                    !.cls = "Argmax", !.args = <<1>>, !.coord = ax,
                    !.inputs = <<1, k>>,
                    !.outputs = <<NewTensor(x.dtype, broadcastable, "Argmax", <<1, k>>),
                                  NewTensor(pool[k].dtype, broadcastable, "Argmax",
                                            <<1, k>>)>>,
                    !.installed = TRUE]]

ConstructArgmax(ax) ==
    LET r == ArgmaxInit(ax)
    IN  /\ op = NoOp
        /\ raised' = r.raised
        /\ tensors' = r.tensors
        /\ op' = r.op
        /\ UNCHANGED <<kdata, tensorVars, propVars, gemmVars, extVars>>

\* ------------------------------------------------- SpecArgmax
InitArgmax ==
    /\ \E dx \in Descriptors(MaxPat) : \E da \in Descriptors(MaxScalarPat) :
          tensors = <<Leaf(dx), Leaf(da)>>
    /\ kdata = <<>>
    /\ op = NoOp
    /\ raised = "not called"
    /\ PropIdle
    /\ TensorIdle
    /\ GemmIdle
    /\ ExtIdle

NextArgmax == \E ax \in AxisArgs : ConstructArgmax(ax)

SpecArgmax == InitArgmax /\ [][NextArgmax]_vars

\* ------------------------------------------------- Gemm.impl
\* whole number n as an element (elements count halves)
Num(n) == 2 * n

\* the product of two elements, exact when one of them is a whole number
Mul(p, q) == (p * q) \div 2

RECURSIVE SumTo(_, _)
SumTo(f, n) == IF n = 0 THEN 0 ELSE f[n] + SumTo(f, n - 1)

\* element [i, j] of a rank-2 array (row-major)
At(m, i, j) == m.elems[(i - 1) * m.shape[2] + j]

\* numpy.dot of two rank-2 arrays
MatDot(x, y) ==
    LET M == x.shape[1]
        K == x.shape[2]
        N == y.shape[2]
    IN  [dtype |-> x.dtype, shape |-> <<M, N>>,
         elems |-> [e \in 1..(M * N) |->
                      LET i == ((e - 1) \div N) + 1
                          j == ((e - 1) % N) + 1
                      IN  SumTo([k \in 1..K |-> Mul(At(x, i, k), At(y, k, j))], K)]]

\* c * m, -m, m + n on arrays (n of m's shape)
Scale(c, m) == [m EXCEPT !.elems = [k \in 1..Len(m.elems) |-> Mul(c, m.elems[k])]]
Negate(m) == [m EXCEPT !.elems = [k \in 1..Len(m.elems) |-> -m.elems[k]]]
Plus(m, n) == [m EXCEPT !.elems = [k \in 1..Len(m.elems) |-> m.elems[k] + n.elems[k]]]

\* numpy.dot(x, y): a 0-d operand multiplies; a 1-d left operand is a row and
\* a 1-d right operand a column, and the axis added is dropped again
numpy_dot(x, y) ==
    IF Len(x.shape) = 0 THEN Scale(x.elems[1], y)
    ELSE IF Len(y.shape) = 0 THEN Scale(y.elems[1], x)
    ELSE LET xm == IF Len(x.shape) = 1 THEN [x EXCEPT !.shape = <<1, x.shape[1]>>] ELSE x
             ym == IF Len(y.shape) = 1 THEN [y EXCEPT !.shape = <<y.shape[1], 1>>] ELSE y
             d == MatDot(xm, ym)
         IN  [d EXCEPT !.shape =
                 (IF Len(x.shape) = 1 THEN <<>> ELSE <<d.shape[1]>>)
                 \o (IF Len(y.shape) = 1 THEN <<>> ELSE <<d.shape[2]>>)]

\* impl computing b*z + a*dot(x, y) into a new array and returning that
Gemm_impl_rebind(m, z, a, x, y, b) ==
    LET r == Plus(Scale(b.elems[1], m[z]), Scale(a.elems[1], numpy_dot(m[x], m[y])))
    IN  [mem |-> Append(m, r), ret |-> Len(m) + 1]

\* impl using the scalar-z formula z*a + b*dot(x, y) for every z
Gemm_impl_swapped(m, z, a, x, y, b) ==
    LET r == Plus(Scale(a.elems[1], m[z]), Scale(b.elems[1], numpy_dot(m[x], m[y])))
    IN  [mem |-> [m EXCEPT ![z] = r], ret |-> z]

\* Gemm.impl(self, z, a, x, y, b) on the buffers m: z, x, y name buffers, a and
\* b are 0-d arrays.  Returns the buffers afterwards and the buffer returned.
Gemm_impl(m, z, a, x, y, b) ==
    LET av == a.elems[1]
        bv == b.elems[1]
        d == numpy_dot(m[x], m[y])
        z1 ==
            IF m[z].shape = <<>>
            THEN [m[z] EXCEPT !.elems = <<Mul(m[z].elems[1], av) + Mul(bv, d.elems[1])>>]
            ELSE IF bv = Num(0)
                 THEN IF av = Num(1) THEN [m[z] EXCEPT !.elems = d.elems]
                      ELSE IF av = Num(-1) THEN [m[z] EXCEPT !.elems = Negate(d).elems]
                      ELSE [m[z] EXCEPT !.elems = Scale(av, d).elems]
                 ELSE IF bv = Num(1)
                      THEN IF av = Num(1) THEN Plus(m[z], d)
                           ELSE IF av = Num(-1) THEN Plus(m[z], Negate(d))
                           ELSE Plus(m[z], Scale(av, d))
                      ELSE Plus(Scale(bv, m[z]), Scale(av, d))
    IN  [mem |-> [m EXCEPT ![z] = z1], ret |-> z]

\* ------------------------------------------------- SpecGemm: Gemm.perform
\* arrays holding the whole numbers 1 and 2
NumArrays ==
    {a \in [dtype : {"float64"},
            shape : {s \in SeqsUpTo(1..MaxDim, MaxRank) : Prod(s) <= MaxMatElems},
            elems : SeqsUpTo({Num(1), Num(2)}, MaxMatElems)] :
        Len(a.elems) = Prod(a.shape)}

\* the arrays a Tensor accepted as Gemm's z, x or y can hold: its pattern
\* passed Gemm.propagate_broadcastable and the array passed its filter
GemmOperands ==
    {a \in NumArrays :
        \E p \in Patterns(MaxRank) :
            /\ Gemm_propagate_broadcastable(p, <<>>, p, p, <<>>).raised = ""
            /\ filter([dtype |-> a.dtype, broadcastable |-> p], a).raised = ""}

\* the 0-d arrays of a and b: a in {-1, 1, 2}, b in {0, 0.5, 1}
ScalarArray(v) == [dtype |-> "float64", shape |-> <<>>, elems |-> <<v>>]

InitGemm ==
    /\ \E z, x, y \in GemmOperands :
          /\ x.shape[1] = z.shape[1]
          /\ x.shape[2] = y.shape[1]
          /\ y.shape[2] = z.shape[2]
          /\ mem = <<z, x, y>>
    /\ \E a \in {Num(-1), Num(1), Num(2)}, b \in {Num(0), 1, Num(1)} :
          call = [z |-> 1, a |-> ScalarArray(a), x |-> 2, y |-> 3, b |-> ScalarArray(b),
                  z0 |-> mem[1], ret |-> 0]
    /\ raised = "not called"
    /\ PropIdle
    /\ TensorIdle
    /\ GraphIdle
    /\ ExtIdle

\* perform: impl(z.data, a.data, x.data, y.data, b.data)
PerformGemm ==
    LET r == Gemm_impl(mem, call.z, call.a, call.x, call.y, call.b)
    IN  /\ call.ret = 0
        /\ mem' = r.mem
        /\ call' = [call EXCEPT !.ret = r.ret]
        /\ raised' = ""
        /\ UNCHANGED <<tensorVars, propVars, graphVars, extVars>>

NextGemm == PerformGemm

SpecGemm == InitGemm /\ [][NextGemm]_vars

\* ------------------------------------------------- Gemm.c_code: operands
PyArray_FLOAT == "PyArray_FLOAT"
PyArray_DOUBLE == "PyArray_DOUBLE"
PyArray_LONG == "PyArray_LONG"

TypeNums == {PyArray_FLOAT, PyArray_DOUBLE, PyArray_LONG}

\* descr->elsize in bytes
elsize(type_num) == IF type_num = PyArray_FLOAT THEN 4 ELSE 8

\* what a buffer holds where no element of the matrix lives
Gap == 1

\* the buffer of an N[1] x N[2] matrix whose element [i, j] (from 0) lives se[1]
\* * i + se[2] * j elements into it and holds the whole number base + i * N[2] + j
Buffer(N, se, base) ==
    [p \in 1..(1 + (N[1] - 1) * se[1] + (N[2] - 1) * se[2]) |->
        IF \E i \in 0..(N[1] - 1), j \in 0..(N[2] - 1) : se[1] * i + se[2] * j = p - 1
        THEN LET ij == CHOOSE ij \in (0..(N[1] - 1)) \X (0..(N[2] - 1)) :
                           se[1] * ij[1] + se[2] * ij[2] = p - 1
             IN  2 * (base + ij[1] * N[2] + ij[2])
        ELSE Gap]

\* a rank-2 ndarray with strides of se elements
Matrix(type_num, N, se, base) ==
    [nd |-> 2, type_num |-> type_num, dimensions |-> N,
     strides |-> <<se[1] * elsize(type_num), se[2] * elsize(type_num)>>,
     data |-> Buffer(N, se, base)]

\* a C-contiguous one
Contiguous(type_num, N, base) == Matrix(type_num, N, <<N[2], 1>>, base)

\* a rank-1 ndarray
Vector(type_num, n, base) ==
    [nd |-> 1, type_num |-> type_num, dimensions |-> <<n>>,
     strides |-> <<elsize(type_num)>>, data |-> [p \in 1..n |-> 2 * (base + p - 1)]]

\* a 0-d ndarray holding v
Scalar0d(type_num, v) ==
    [nd |-> 0, type_num |-> type_num, dimensions |-> <<>>, strides |-> <<>>, data |-> <<v>>]

\* the whole numbers the elements of x, y, z start from
BaseX == 1
BaseY == 11
BaseZ == 23

\* ------------------------------------------------- Gemm.c_code: the kernel
E_dims == "Input dimensions do not agree"
E_stride == "stride is not multiple of element size"
E_unit == "some matrix has no unit stride"

IsReal(o) == o.type_num \in {PyArray_DOUBLE, PyArray_FLOAT}

\* (S[0] < 1) || (S[1] < 1) || (S[0] MOD type_size) || (S[1] MOD type_size)
BadStrides(S, type_size) ==
    S[1] < 1 \/ S[2] < 1 \/ S[1] % type_size # 0 \/ S[2] % type_size # 0

\* the checks with the comparison of the dimensions left out
KernelChecks_noDims(k) ==
    LET type_size == elsize(k.x.type_num)
    IN  IF k.x.nd # 2 THEN "rank(x) != 2"
        ELSE IF k.y.nd # 2 THEN "rank(y) != 2"
        ELSE IF k.z.nd # 2 THEN "rank(z) != 2"
        ELSE IF ~IsReal(k.a) THEN "type(a) is not double or float"
        ELSE IF ~IsReal(k.b) THEN "type(b) is not double or float"
        ELSE IF ~IsReal(k.x) THEN "type(x) is not double or float"
        ELSE IF ~IsReal(k.y) THEN "type(y) is not double or float"
        ELSE IF ~IsReal(k.z) THEN "type(z) is not double or float"
        ELSE IF k.x.type_num # k.y.type_num \/ k.x.type_num # k.z.type_num
             THEN "type(z), type(y), type(z) are not all the same"
        ELSE IF BadStrides(k.x.strides, type_size) \/ BadStrides(k.y.strides, type_size)
                \/ BadStrides(k.z.strides, type_size)
             THEN E_stride
        ELSE ""

\* the checks ahead of the dispatch, in the order of the code: the error set,
\* "" when all pass
KernelChecks(k) ==
    LET type_size == elsize(k.x.type_num)
        Nx == k.x.dimensions
        Ny == k.y.dimensions
        Nz == k.z.dimensions
    IN  IF k.x.nd # 2 THEN "rank(x) != 2"
        ELSE IF k.y.nd # 2 THEN "rank(y) != 2"
        ELSE IF k.z.nd # 2 THEN "rank(z) != 2"
        ELSE IF ~IsReal(k.a) THEN "type(a) is not double or float"
        ELSE IF ~IsReal(k.b) THEN "type(b) is not double or float"
        ELSE IF ~IsReal(k.x) THEN "type(x) is not double or float"
        ELSE IF ~IsReal(k.y) THEN "type(y) is not double or float"
        ELSE IF ~IsReal(k.z) THEN "type(z) is not double or float"
        ELSE IF k.x.type_num # k.y.type_num \/ k.x.type_num # k.z.type_num
             THEN "type(z), type(y), type(z) are not all the same"
        ELSE IF Nx[1] # Nz[1] \/ Nx[2] # Ny[1] \/ Ny[2] # Nz[2] THEN E_dims
        ELSE IF BadStrides(k.x.strides, type_size) \/ BadStrides(k.y.strides, type_size)
                \/ BadStrides(k.z.strides, type_size)
             THEN E_stride
        ELSE ""

\* v << n on values whose bits do not overlap
Shl(v, n) == v * 2 ^ n

\* the tag with axis 0 tried before axis 1
StrideTag_axis0First(S, type_size) ==
    IF S[1] = type_size THEN 1 ELSE IF S[2] = type_size THEN 0 ELSE 2

\* (S[1] == type_size) ? 0x0 : (S[0] == type_size) ? 0x1 : 0x2
StrideTag(S, type_size) ==
    IF S[2] = type_size THEN 0 ELSE IF S[1] = type_size THEN 1 ELSE 2

\* unit after the three |= lines
Unit(k) ==
    LET type_size == elsize(k.x.type_num)
    IN  Shl(StrideTag(k.x.strides, type_size), 8)
        + Shl(StrideTag(k.y.strides, type_size), 4)
        + Shl(StrideTag(k.z.strides, type_size), 0)

\* s_0 and s_1 of an operand: the strides in elements, and the other
\* dimension for an axis of size 1
LeadingDims(o, type_size) ==
    <<IF o.dimensions[1] > 1 THEN o.strides[1] \div type_size ELSE o.dimensions[2],
      IF o.dimensions[2] > 1 THEN o.strides[2] \div type_size ELSE o.dimensions[1]>>

GemmCall(fn, ta, tb, m, n, kk, A, lda, B, ldb, ldc) ==
    [fn |-> fn, transa |-> ta, transb |-> tb, m |-> m, n |-> n, k |-> kk,
     A |-> A, lda |-> lda, B |-> B, ldb |-> ldb, ldc |-> ldc]

\* the switch with case 0x100 passing sx_0 as x's leading dimension
GemmSwitch_ldx0(unit, fn, k) ==
    LET type_size == elsize(k.x.type_num)
        sx == LeadingDims(k.x, type_size)
        sy == LeadingDims(k.y, type_size)
        sz == LeadingDims(k.z, type_size)
        Nz0 == k.z.dimensions[1]
        Nz1 == k.z.dimensions[2]
        Nx1 == k.x.dimensions[2]
    IN  CASE unit = 0   -> GemmCall(fn, "N", "N", Nz1, Nz0, Nx1, "y", sy[1], "x", sx[1], sz[1])
          [] unit = 256 -> GemmCall(fn, "N", "T", Nz1, Nz0, Nx1, "y", sy[1], "x", sx[1], sz[1])
          [] unit = 16  -> GemmCall(fn, "T", "N", Nz1, Nz0, Nx1, "y", sy[2], "x", sx[1], sz[1])
          [] unit = 272 -> GemmCall(fn, "T", "T", Nz1, Nz0, Nx1, "y", sy[2], "x", sx[2], sz[1])
          [] unit = 1   -> GemmCall(fn, "T", "T", Nz0, Nz1, Nx1, "x", sx[1], "y", sy[1], sz[2])
          [] unit = 257 -> GemmCall(fn, "N", "T", Nz0, Nz1, Nx1, "x", sx[2], "y", sy[1], sz[2])
          [] unit = 17  -> GemmCall(fn, "T", "N", Nz0, Nz1, Nx1, "x", sx[1], "y", sy[2], sz[2])
          [] unit = 273 -> GemmCall(fn, "N", "N", Nz0, Nz1, Nx1, "x", sx[2], "y", sy[2], sz[2])
          [] OTHER -> NoGemmCall

\* switch (unit): the sgemm_ / dgemm_ call of each case (0x000, 0x100, 0x010,
\* 0x110, 0x001, 0x101, 0x011, 0x111), none in the default case
GemmSwitch(unit, fn, k) ==
    LET type_size == elsize(k.x.type_num)
        sx == LeadingDims(k.x, type_size)
        sy == LeadingDims(k.y, type_size)
        sz == LeadingDims(k.z, type_size)
        Nz0 == k.z.dimensions[1]
        Nz1 == k.z.dimensions[2]
        Nx1 == k.x.dimensions[2]
    IN  CASE unit = 0   -> GemmCall(fn, "N", "N", Nz1, Nz0, Nx1, "y", sy[1], "x", sx[1], sz[1])
          [] unit = 256 -> GemmCall(fn, "N", "T", Nz1, Nz0, Nx1, "y", sy[1], "x", sx[2], sz[1])
          [] unit = 16  -> GemmCall(fn, "T", "N", Nz1, Nz0, Nx1, "y", sy[2], "x", sx[1], sz[1])
          [] unit = 272 -> GemmCall(fn, "T", "T", Nz1, Nz0, Nx1, "y", sy[2], "x", sx[2], sz[1])
          [] unit = 1   -> GemmCall(fn, "T", "T", Nz0, Nz1, Nx1, "x", sx[1], "y", sy[1], sz[2])
          [] unit = 257 -> GemmCall(fn, "N", "T", Nz0, Nz1, Nx1, "x", sx[2], "y", sy[1], sz[2])
          [] unit = 17  -> GemmCall(fn, "T", "N", Nz0, Nz1, Nx1, "x", sx[1], "y", sy[2], sz[2])
          [] unit = 273 -> GemmCall(fn, "N", "N", Nz0, Nz1, Nx1, "x", sx[2], "y", sy[2], sz[2])
          [] OTHER -> NoGemmCall

\* ------------------------------------------------- BLAS xGEMM
\* element p (from 0) of a buffer
Rd(buf, p) == IF p + 1 \in 1..Len(buf) THEN buf[p + 1] ELSE Gap

\* C := alpha * op(A) * op(B) + beta * C on column-major storage, op(A) m x k,
\* op(B) k x n, C m x n; an illegal leading dimension is reported (xerbla) and
\* nothing is computed
blas_gemm(g, alpha, A, B, beta, C) ==
    LET nrowa == IF g.transa = "N" THEN g.m ELSE g.k
        nrowb == IF g.transb = "N" THEN g.k ELSE g.n
        opA(i, l) == IF g.transa = "N" THEN Rd(A, i + l * g.lda) ELSE Rd(A, l + i * g.lda)
        opB(l, j) == IF g.transb = "N" THEN Rd(B, l + j * g.ldb) ELSE Rd(B, j + l * g.ldb)
    IN  IF g.lda < Max(1, nrowa) \/ g.ldb < Max(1, nrowb) \/ g.ldc < Max(1, g.m)
        THEN C
        ELSE [p \in 1..Len(C) |->
                LET i == (p - 1) % g.ldc
                    j == (p - 1) \div g.ldc
                IN  IF i < g.m /\ j < g.n
                    THEN Mul(beta, C[p])
                         + Mul(alpha, SumTo([l \in 1..g.k |-> Mul(opA(i, l - 1), opB(l - 1, j))],
                                            g.k))
                    ELSE C[p]]

\* ------------------------------------------------- SpecKernel
\* entry: zout is made to name z, then the checks run
KernelEnter ==
    LET e == KernelChecks(kern)
    IN  /\ kern.pc = "entry"
        /\ kern' = [kern EXCEPT !.zout = "z", !.err = e,
                                !.pc = IF e = "" THEN "dispatch" ELSE "failed"]
        /\ raised' = e
        /\ UNCHANGED <<fcall, tensorVars, propVars, graphVars, gemmVars>>

\* the layout code, the leading dimensions, and the switches on type_num and
\* unit: the gemm call, or the failure of the default case
KernelDispatch ==
    LET unit == Unit(kern)
        fn == IF kern.x.type_num = PyArray_FLOAT THEN "sgemm_" ELSE "dgemm_"
        g == GemmSwitch(unit, fn, kern)
        buf(n) == IF n = "x" THEN kern.x.data ELSE kern.y.data
    IN  /\ kern.pc = "dispatch"
        /\ kern' =
              IF g = NoGemmCall
              THEN [kern EXCEPT !.unit = unit, !.err = E_unit, !.pc = "failed"]
              ELSE [kern EXCEPT !.unit = unit, !.gemm = g, !.pc = "done",
                                !.z.data = blas_gemm(g, kern.a.data[1], buf(g.A), buf(g.B),
                                                     kern.b.data[1], kern.z.data)]
        /\ raised' = IF g = NoGemmCall THEN E_unit ELSE ""
        /\ UNCHANGED <<fcall, tensorVars, propVars, graphVars, gemmVars>>

\* the kernel about to run on x, y, z, a, b
KernelEntry(x, y, z, a, b) ==
    [NoKern EXCEPT !.pc = "entry", !.x = x, !.y = y, !.z = z, !.a = a, !.b = b,
                   !.z0 = z.data]

KDims == (1..MaxKDim) \X (1..MaxKDim)

ElemStrides == (1..MaxStride) \X (1..MaxStride)

\* byte strides, among them zero, a negative one and ones the element sizes
\* 4 and 8 do not divide
ByteStrides == {-8, 0, 4, 8, 12, 16}

\* double matrices of compatible shapes in every layout of strides up to
\* MaxStride elements, (a, b) = (-1, 0) or (2, 3)
Layouts ==
    {KernelEntry(Matrix(PyArray_DOUBLE, <<M, K>>, sx, BaseX),
                 Matrix(PyArray_DOUBLE, <<K, N>>, sy, BaseY),
                 Matrix(PyArray_DOUBLE, <<M, N>>, sz, BaseZ),
                 Scalar0d(PyArray_DOUBLE, ab[1]), Scalar0d(PyArray_DOUBLE, ab[2])) :
        M \in 1..MaxKDim, K \in 1..MaxKDim, N \in 1..MaxKDim,
        sx \in ElemStrides, sy \in ElemStrides, sz \in ElemStrides,
        ab \in {<<-2, 0>>, <<4, 6>>}}

\* contiguous operands of any element type, each of x, y, z of rank 2 or 1
TypesAndRanks ==
    {KernelEntry(IF r[1] = 2 THEN Contiguous(t[1], <<MaxKDim, MaxKDim>>, BaseX)
                             ELSE Vector(t[1], MaxKDim, BaseX),
                 IF r[2] = 2 THEN Contiguous(t[2], <<MaxKDim, MaxKDim>>, BaseY)
                             ELSE Vector(t[2], MaxKDim, BaseY),
                 IF r[3] = 2 THEN Contiguous(t[3], <<MaxKDim, MaxKDim>>, BaseZ)
                             ELSE Vector(t[3], MaxKDim, BaseZ),
                 Scalar0d(t[4], 4), Scalar0d(t[5], 6)) :
        t \in [1..5 -> TypeNums], r \in [1..3 -> {1, 2}]}

\* contiguous double matrices of any shapes, compatible or not
Shapes3 ==
    {KernelEntry(Contiguous(PyArray_DOUBLE, Nx, BaseX),
                 Contiguous(PyArray_DOUBLE, Ny, BaseY),
                 Contiguous(PyArray_DOUBLE, Nz, BaseZ),
                 Scalar0d(PyArray_DOUBLE, 4), Scalar0d(PyArray_DOUBLE, 6)) :
        Nx \in KDims, Ny \in KDims, Nz \in KDims}

\* a matrix with the byte strides S: its buffer spans them when they are whole,
\* positive numbers of elements, and is not read otherwise
WithStrides(type_num, N, S, base) ==
    IF BadStrides(S, elsize(type_num))
    THEN [Contiguous(type_num, N, base) EXCEPT !.strides = S]
    ELSE Matrix(type_num, N, <<S[1] \div elsize(type_num), S[2] \div elsize(type_num)>>,
                base)

\* float or double matrices of compatible shapes, one of them with arbitrary
\* byte strides
Strided ==
    {KernelEntry(IF w = 1 THEN WithStrides(t, <<M, K>>, S, BaseX)
                          ELSE Contiguous(t, <<M, K>>, BaseX),
                 IF w = 2 THEN WithStrides(t, <<K, N>>, S, BaseY)
                          ELSE Contiguous(t, <<K, N>>, BaseY),
                 IF w = 3 THEN WithStrides(t, <<M, N>>, S, BaseZ)
                          ELSE Contiguous(t, <<M, N>>, BaseZ),
                 Scalar0d(t, 4), Scalar0d(t, 6)) :
        t \in {PyArray_FLOAT, PyArray_DOUBLE}, w \in 1..3,
        M \in 1..MaxKDim, K \in 1..MaxKDim, N \in 1..MaxKDim,
        S \in ByteStrides \X ByteStrides}

InitKernel ==
    /\ kern \in Layouts \cup TypesAndRanks \cup Shapes3 \cup Strided
    /\ fcall = NoFcall
    /\ raised = "not called"
    /\ TensorIdle
    /\ PropIdle
    /\ GraphIdle
    /\ GemmIdle

NextKernel == KernelEnter \/ KernelDispatch

SpecKernel == InitKernel /\ [][NextKernel]_vars

\* ------------------------------------------------- Tensor.__init__, constructors
\* the dtypes dtype_specs has an entry for
SupportedDtypes ==
    {"float32", "float64", "int8", "int16", "int32", "int64", "complex128", "complex64"}

E_dtype == "TypeError: Unsupported dtype"
E_not_iterable == "TypeError: object is not iterable"

\* a Python value handed as broadcastable: a tuple or list of flags, a bare
\* flag (a bool or the int 0 / 1), or None
PySeq(v) == [kind |-> "seq", v |-> v]
PyFlag(b) == [kind |-> "flag", v |-> <<b>>]
PyNone == [kind |-> "None", v |-> <<>>]

NoTensor == NewTensor("None", <<>>, "None", <<>>)

\* Tensor(dtype, broadcastable, name): dtype_specs() rejects an unknown dtype,
\* then tuple(broadcastable) needs an iterable
Tensor_init(dtype, broadcastable, name) ==
    IF dtype \notin SupportedDtypes THEN [raised |-> E_dtype, rval |-> NoTensor]
    ELSE IF broadcastable.kind # "seq" THEN [raised |-> E_not_iterable, rval |-> NoTensor]
    ELSE [raised |-> "",
          rval |-> [NewTensor(dtype, broadcastable.v, "None", <<>>) EXCEPT !.name = name]]

Names == {"a", "b"}

Ctors == {"scalar", "vector", "matrix", "row", "col"}

\* the i / f variants of _int_float and the plain function with its default
Variants == {"", "i", "f"}

\* the broadcastable argument each constructor writes: (), (False), (False,
\* False), (True, False), (False, True); (False) is the bare False
CtorBroadcastable(fn) ==
    CASE fn = "scalar" -> PySeq(<<>>)
      [] fn = "vector" -> PyFlag(FALSE)
      [] fn = "matrix" -> PySeq(<<FALSE, FALSE>>)
      [] fn = "row" -> PySeq(<<TRUE, FALSE>>)
      [] fn = "col" -> PySeq(<<FALSE, TRUE>>)

VariantDtype(v) == IF v = "i" THEN "int64" ELSE "float64"

\* scalar(name), ivector(name), ...
Ctor(v, fn, name) == Tensor_init(VariantDtype(v), CtorBroadcastable(fn), name)

\* t = <v><fn>(name): the caller keeps what is returned
CallCtor(v, fn, name) ==
    LET r == Ctor(v, fn, name)
        ok == r.raised = ""
    IN  /\ Len(tensors) < MaxMade
        /\ raised' = r.raised
        /\ tensors' = IF ok THEN Append(tensors, r.rval) ELSE tensors
        /\ fcall' = [NoFcall EXCEPT !.fn = v \o fn, !.name = name,
                                    !.ret = IF ok THEN Len(tensors) + 1 ELSE 0]
        /\ UNCHANGED <<kdata, op, kern, tensorVars, propVars, gemmVars>>

InitCtor ==
    /\ raised = "not called"
    /\ TensorIdle
    /\ PropIdle
    /\ GraphIdle
    /\ GemmIdle
    /\ ExtIdle

NextCtor == \E v \in Variants : \E fn \in Ctors : \E name \in Names : CallCtor(v, fn, name)

SpecCtor == InitCtor /\ [][NextCtor]_vars

\* ------------------------------------------------- astensor
E_wrong_pattern == "TypeError: The data to wrap as a Tensor has the wrong broadcastable pattern"
E_rename == "ValueError: Cannot rename an existing Tensor."
E_non_tensor == "TypeError: Cannot make a Tensor out of a non-Tensor result"
E_none == "TypeError: Cannot make a Tensor out of None."

\* what is handed to astensor as data: the Tensor tensors[t], a Result that
\* is not a Tensor, None, or a host array
DataTensor(t) == [kind |-> "Tensor", t |-> t, arr |-> NoneArr]
DataResult == [kind |-> "Result", t |-> 0, arr |-> NoneArr]
DataNone == [kind |-> "None", t |-> 0, arr |-> NoneArr]
DataArray(a) == [kind |-> "array", t |-> 0, arr |-> a]

\* host arrays of ones with axes of size 1 and 2
ApiArrays ==
    {[dtype |-> dt, shape |-> sh, elems |-> [k \in 1..Prod(sh) |-> 2]] :
        dt \in Dtypes, sh \in SeqsUpTo({1, 2}, MaxHostRank)}

BroadcastableArgs ==
    {PyNone, PyFlag(FALSE), PyFlag(TRUE)} \cup {PySeq(p) : p \in Patterns(MaxHostRank)}

NameArgs == {"None"} \cup Names

\* numpy.asarray(data) for None (a 0-d object array) and for an array
numpy_asarray(obj) ==
    IF obj.kind = "None" THEN [dtype |-> "object", shape |-> <<>>, elems |-> <<>>]
    ELSE obj.arr

\* astensor that returns an existing Tensor whatever name is asked for
astensor3_anyName(obj, broadcastable, name) ==
    LET fail(e) == [raised |-> e, ret |-> 0, tensors |-> tensors]
    IN  IF obj.kind = "Tensor"
        THEN IF broadcastable.kind = "flag" THEN fail(E_not_iterable)
             ELSE IF broadcastable.kind = "seq"
                     /\ tensors[obj.t].broadcastable # broadcastable.v
                  THEN fail(E_wrong_pattern)
             ELSE [raised |-> "", ret |-> obj.t, tensors |-> tensors]
        ELSE IF obj.kind = "Result" THEN fail(E_non_tensor)
        ELSE IF obj.kind = "None" /\ broadcastable.kind = "None" THEN fail(E_none)
        ELSE LET a == numpy_asarray(obj)
                 b == IF broadcastable.kind = "None"
                      THEN [i \in 1..Len(a.shape) |-> a.shape[i] = 1]
                      ELSE IF broadcastable.kind = "flag"
                           THEN [i \in 1..Len(a.shape) |-> broadcastable.v[1]]
                           ELSE broadcastable.v
                 t == Tensor_init(a.dtype, PySeq(b), name)
                 f == filter([dtype |-> a.dtype, broadcastable |-> b], a)
             IN  IF t.raised # "" THEN fail(t.raised)
                 ELSE IF f.raised # "" THEN fail(f.raised)
                 ELSE [raised |-> "", ret |-> Len(tensors) + 1,
                       tensors |-> Append(tensors, [t.rval EXCEPT !.data = f.rval])]

\* astensor(data, broadcastable, name): what it raises, the Tensor it returns
\* (its place among tensors) and the Tensors that exist afterwards
astensor3(obj, broadcastable, name) ==
    LET fail(e) == [raised |-> e, ret |-> 0, tensors |-> tensors]
    IN  IF obj.kind = "Tensor"
        THEN IF broadcastable.kind = "flag" THEN fail(E_not_iterable)
             ELSE IF broadcastable.kind = "seq"
                     /\ tensors[obj.t].broadcastable # broadcastable.v
                  THEN fail(E_wrong_pattern)
             ELSE IF name # "None" /\ name # tensors[obj.t].name THEN fail(E_rename)
             ELSE [raised |-> "", ret |-> obj.t, tensors |-> tensors]
        ELSE IF obj.kind = "Result" THEN fail(E_non_tensor)
        ELSE IF obj.kind = "None" /\ broadcastable.kind = "None" THEN fail(E_none)
        ELSE LET a == numpy_asarray(obj)
                 b == IF broadcastable.kind = "None"
                      THEN [i \in 1..Len(a.shape) |-> a.shape[i] = 1]
                      ELSE IF broadcastable.kind = "flag"
                           THEN [i \in 1..Len(a.shape) |-> broadcastable.v[1]]
                           ELSE broadcastable.v
                 t == Tensor_init(a.dtype, PySeq(b), name)
                 f == filter([dtype |-> a.dtype, broadcastable |-> b], a)
             IN  IF t.raised # "" THEN fail(t.raised)
                 ELSE IF f.raised # "" THEN fail(f.raised)
                 ELSE [raised |-> "", ret |-> Len(tensors) + 1,
                       tensors |-> Append(tensors, [t.rval EXCEPT !.data = f.rval])]

\* r = astensor(data, broadcastable, name); the caller converts a host value
\* first and applies astensor to what it holds afterwards
CallAstensor(obj, broadcastable, name) ==
    LET r == astensor3(obj, broadcastable, name)
    IN  /\ obj.kind = "array" => tensors = <<>>
        /\ raised' = r.raised
        /\ tensors' = r.tensors
        /\ fcall' = [fn |-> "astensor", data |-> obj, broadcastable |-> broadcastable,
                     name |-> name, ret |-> r.ret]
        /\ UNCHANGED <<kdata, op, kern, tensorVars, propVars, gemmVars>>

InitAstensor ==
    /\ raised = "not called"
    /\ TensorIdle
    /\ PropIdle
    /\ GraphIdle
    /\ GemmIdle
    /\ ExtIdle

NextAstensor ==
    \E obj \in {DataTensor(t) : t \in 1..Len(tensors)} \cup {DataResult, DataNone}
                 \cup {DataArray(a) : a \in ApiArrays} :
        \E broadcastable \in BroadcastableArgs : \E name \in NameArgs :
            CallAstensor(obj, broadcastable, name)

SpecAstensor == InitAstensor /\ [][NextAstensor]_vars

\* ------------------------------------------------------------- C1
\* C1: in every state reached by data assignments (failed ones included),
\* non-null data has rank len(broadcastable), element type dtype, and size 1
\* on every axis flagged broadcastable.
C1_DataMatchesDescriptor ==
    data # NoneArr =>
        /\ Len(data.shape) = Len(self.broadcastable)
        /\ data.dtype = self.dtype
        /\ \A i \in 1..Len(self.broadcastable) :
               self.broadcastable[i] => data.shape[i] = 1

\* a failed assignment (non-unit broadcast axis) after a successful one
C1_Witness ==
    /\ data # NoneArr
    /\ raised = E_shape
    /\ \E i \in 1..Len(self.broadcastable) : self.broadcastable[i]

\* ------------------------------------------------------------- C2
RankDiffers == Len(arr.shape) # Len(self.broadcastable)

BadBroadcastAxis ==
    \E i \in 1..Len(self.broadcastable) :
        /\ i <= Len(arr.shape)
        /\ self.broadcastable[i]
        /\ arr.shape[i] # 1

C2_Classification ==
    /\ raised = E_rank <=> RankDiffers
    /\ raised = E_shape <=> (~RankDiffers /\ BadBroadcastAxis)
    /\ raised = "" <=> (~RankDiffers /\ ~BadBroadcastAxis)

\* an element (in halves) is the conversion of v to dtype dt: unchanged for
\* float64; for int64 the whole number of the same sign nearest to zero
IsConversionOf(w, v, dt) ==
    IF dt = "float64" THEN w = v
    ELSE /\ w % 2 = 0
         /\ IF v >= 0 THEN w <= v /\ v - w < 2 ELSE w >= v /\ w - v < 2

\* C2 as stated: fixed-order exhaustive classification, and on success the
\* returned array has the input's shape and the input's elements.
C2_AsStated ==
    raised # "not called" =>
        /\ C2_Classification
        /\ raised = "" => (rval.shape = arr.shape /\ rval.elems = arr.elems)

\* C2 amended: on success the returned array has the Tensor's dtype, the
\* input's shape, and the input's elements converted to that dtype (the very
\* same elements when the input already has the dtype).
C2_Amended ==
    raised # "not called" =>
        /\ C2_Classification
        /\ raised = "" =>
              /\ rval.shape = arr.shape
              /\ rval.dtype = self.dtype
              /\ Len(rval.elems) = Len(arr.elems)
              /\ \A k \in 1..Len(arr.elems) :
                     IsConversionOf(rval.elems[k], arr.elems[k], self.dtype)
              /\ arr.dtype = self.dtype => rval = arr

\* an input violating both conditions is reported as the rank error
C2_Witness ==
    /\ raised = E_rank
    /\ RankDiffers
    /\ BadBroadcastAxis

\* a successful call that had to convert a non-integral element
C2_WitnessCast ==
    /\ raised = ""
    /\ rval.elems # arr.elems
\* ------------------------------------------------------------- C3
\* the input positions holding a dtype (a Tensor input)
TensorInputs == {k \in 1..Len(i_dtypes) : i_dtypes[k] # "None"}

\* C3: the default propagate_dtype fails when no input dtype is non-None,
\* fails when two non-None input dtypes differ, and otherwise returns exactly
\* nout entries, each the common dtype.
C3_PropagateDtype ==
    raised # "not called" =>
        /\ TensorInputs = {} => raised = E_no_tensor
        /\ (\E j, k \in TensorInputs : i_dtypes[j] # i_dtypes[k]) => raised = E_identical
        /\ (/\ TensorInputs # {}
            /\ \A j, k \in TensorInputs : i_dtypes[j] = i_dtypes[k])
           => /\ raised = ""
              /\ Len(o_dtypes) = nout
              /\ \A n \in 1..nout : \A k \in TensorInputs : o_dtypes[n] = i_dtypes[k]

\* a successful call with a None entry, several inputs and nout = 2
C3_Witness ==
    /\ raised = ""
    /\ nout = 2
    /\ Len(o_dtypes) = 2
    /\ Len(i_dtypes) = 3
    /\ \E k \in 1..Len(i_dtypes) : i_dtypes[k] = "None"
\* ------------------------------------------------------------- C4
\* bx[:-1] + by[:-2] + by[-1:], written out position by position
DotTable(bx, by) ==
    LET nx == Len(bx) - 1
        ny == Len(by) - 2
    IN  [i \in 1..(nx + ny + 1) |->
            IF i <= nx THEN bx[i]
            ELSE IF i <= nx + ny THEN by[i - nx]
            ELSE by[Len(by)]]

DotExpected(bx, by) ==
    IF Len(bx) = 0 THEN by
    ELSE IF Len(by) = 0 THEN bx
    ELSE IF Len(by) = 1 THEN [i \in 1..(Len(bx) - 1) |-> bx[i]]
    ELSE DotTable(bx, by)

\* C4: broadcastable_rule(bx, by) follows the table of 4.G for all patterns,
\* and the single output of a constructed Dot op carries that pattern.
C4_DotPattern ==
    (op.cls = "Dot" /\ Len(i_broadcastables) = 2) =>
        LET want == DotExpected(i_broadcastables[1], i_broadcastables[2])
        IN  /\ o_broadcastables = <<want>>
            /\ raised = "" =>
                  /\ Len(op.outputs) = 1
                  /\ op.outputs[1].broadcastable = want
                  /\ op.outputs[1].owner = "Dot"

\* a constructed Dot of a rank >= 1 x with a rank-3 y whose middle axis is kept
C4_Witness ==
    /\ op.cls = "Dot"
    /\ raised = ""
    /\ Len(i_broadcastables) = 2
    /\ Len(i_broadcastables[1]) = 2
    /\ Len(i_broadcastables[2]) = 3
    /\ i_broadcastables[2][1]
    /\ ~i_broadcastables[2][2]
    /\ Len(op.outputs[1].broadcastable) = 3
\* ------------------------------------------------------------- C5
\* element [i, j] of b*z0 + a*(x.y), from the definition of the matrix product
GemmExpected(i, j) ==
    LET x == mem[call.x]
        y == mem[call.y]
        K == x.shape[2]
        xy == SumTo([k \in 1..K |-> (At(x, i, k) * At(y, k, j)) \div 2], K)
    IN  (call.b.elems[1] * At(call.z0, i, j) + call.a.elems[1] * xy) \div 2

\* C5: after the reference evaluator ran, z's buffer holds b*z0 + a*(x.y) for
\* every (a, b), the special-cased ones included, x and y are untouched, and
\* the value returned is z's buffer itself.
C5_GemmImpl ==
    call.ret # 0 =>
        /\ call.ret = call.z
        /\ Len(mem) = 3
        /\ mem[call.z].shape = call.z0.shape
        /\ \A i \in 1..call.z0.shape[1] : \A j \in 1..call.z0.shape[2] :
               At(mem[call.z], i, j) = GemmExpected(i, j)

\* the general branch (b = 0.5, a = 2) on 2 x 2 operands
C5_Witness ==
    /\ call.ret # 0
    /\ call.b.elems[1] = 1
    /\ call.a.elems[1] = Num(2)
    /\ call.z0.shape = <<2, 2>>
    /\ mem[call.x].shape = <<2, 2>>
    /\ mem[call.z] # call.z0
\* ------------------------------------------------------------- C6
Arg(k) == tensors[op.args[k]]

\* z's view roots meet x's or y's
ZAliased ==
    view_roots(op.args[1]) \cap (view_roots(op.args[3]) \cup view_roots(op.args[4])) # {}

\* _Op.__init__'s checks pass: z, x, y of rank 2, a, b of rank 0, one dtype
BaseChecksPass ==
    /\ \A k \in {1, 3, 4} : Len(Arg(k).broadcastable) = 2
    /\ \A k \in {2, 5} : Len(Arg(k).broadcastable) = 0
    /\ \A j, k \in 1..5 : Arg(j).dtype = Arg(k).dtype

\* C6 as stated: Gemm(z, a, x, y, b) fails with 'argument z aliased to x or y'
\* whenever z's view roots meet x's or y's, and never with that error otherwise.
C6_AsStated ==
    op.cls = "Gemm" => (raised = Gemm_E_z_uniq <=> ZAliased)

\* C6 amended: when the base constructor's checks pass, construction fails
\* with 'argument z aliased to x or y' exactly when z's view roots meet x's or
\* y's; when one of them fails, its error is raised instead, aliased or not.
C6_Amended ==
    op.cls = "Gemm" =>
        /\ raised = Gemm_E_z_uniq <=> (ZAliased /\ BaseChecksPass)
        /\ ~BaseChecksPass =>
              raised \in {Gemm_E_rank, Gemm_E_scalar, E_identical, E_no_tensor}
        /\ (BaseChecksPass /\ ~ZAliased) => raised = ""

\* z, x, y are three different Tensors, and z is a view of y
C6_Witness ==
    /\ op.cls = "Gemm"
    /\ raised = Gemm_E_z_uniq
    /\ Cardinality({op.args[1], op.args[3], op.args[4]}) = 3
    /\ Arg(1).owner = "Subtensor"
    /\ view_roots(op.args[1]) \cap view_roots(op.args[3]) = {}

\* ------------------------------------------------------------- C7
\* C7: the shape check accepts exactly when z, x, y have rank 2 and a, b rank
\* 0; a wrong rank of z, x or y gives the rank error, also when a or b is not
\* a scalar; otherwise a non-scalar a or b gives the scalar error; on
\* acceptance the single output's pattern is z's.
C7_GemmShape ==
    op.cls = "Gemm" =>
        LET rank(k) == Len(tensors[k].broadcastable)
            matrices == rank(1) = 2 /\ rank(3) = 2 /\ rank(4) = 2
            scalars == rank(2) = 0 /\ rank(5) = 0
        IN  /\ raised = "" <=> (matrices /\ scalars)
            /\ raised = Gemm_E_rank <=> ~matrices
            /\ raised = Gemm_E_scalar <=> (matrices /\ ~scalars)
            /\ raised = "" =>
                  /\ Len(op.outputs) = 1
                  /\ op.outputs[1].broadcastable = tensors[1].broadcastable

\* both a rank and a scalar error are present: the rank error is reported
C7_Witness ==
    /\ op.cls = "Gemm"
    /\ raised = Gemm_E_rank
    /\ Len(tensors[2].broadcastable) = 1
    /\ Len(tensors[1].broadcastable) = 2
    /\ Len(tensors[4].broadcastable) = 1

\* ------------------------------------------------------------- C8
\* the number of entries of the index as the caller passed it
NEntries ==
    IF op.coord.kind = "object" THEN 1
    ELSE IF op.coord.kind = "tuple" THEN Len(op.coord.data)
    ELSE Len(op.k0)

BaseRank == Len(tensors[op.args[1]].broadcastable)

\* C8: Subtensor(base, index) fails with 'invalid index' if and only if the
\* index has more entries than base has axes, a non-tuple counting as one.
C8_InvalidIndex ==
    op.cls = "Subtensor" =>
        /\ raised = e_invalid <=> NEntries > BaseRank
        /\ raised \in {"", e_invalid}

\* a bare (non-tuple) index on a rank-0 base
C8_Witness ==
    /\ op.cls = "Subtensor"
    /\ raised = e_invalid
    /\ op.coord.kind = "object"
    /\ BaseRank = 0

\* ------------------------------------------------------------- C9
\* the payload of the op's index input
Payload == IF op.index.ref = "k" THEN kdata ELSE op.index.data

NSlices == Cardinality({i \in 1..Len(Payload) : Payload[i].kind = "slice"})

\* the entry the caller passed when the index has exactly one
SingleEntry ==
    IF op.coord.kind = "Result" THEN op.k0[1] ELSE op.coord.data[1]

\* C9: a constructed Subtensor's output has as many axes as the padded index
\* has slices, all flags false, and base's dtype; a single integer index
\* gives rank(base) - 1 and a single slice index rank(base).
C9_SubtensorOutput ==
    (op.cls = "Subtensor" /\ raised = "") =>
        LET out == op.outputs[1]
        IN  /\ Len(op.outputs) = 1
            /\ Len(out.broadcastable) = NSlices
            /\ \A i \in 1..Len(out.broadcastable) : ~out.broadcastable[i]
            /\ out.dtype = tensors[op.args[1]].dtype
            /\ NEntries = 1 =>
                  Len(out.broadcastable) =
                      IF SingleEntry.kind = "int" THEN BaseRank - 1 ELSE BaseRank

\* a single integer index on a rank-2 base with a broadcastable axis
C9_Witness ==
    /\ op.cls = "Subtensor"
    /\ raised = ""
    /\ NEntries = 1
    /\ SingleEntry.kind = "int"
    /\ tensors[op.args[1]].broadcastable = <<TRUE, FALSE>>
    /\ op.outputs[1].broadcastable = <<FALSE>>
\* ------------------------------------------------------------- C10
\* C10: every Argmax(x, axis) has exactly two outputs, both with an all-false
\* pattern of length rank(x) - 1, the first of x's dtype and the second of the
\* axis result's dtype; with axis omitted the axis input holds rank(x) - 1.
C10_AsStated ==
    op.cls = "Argmax" =>
        LET x == tensors[op.inputs[1]]
            axis == tensors[op.inputs[2]]
        IN  /\ Len(op.outputs) = 2
            /\ \A k \in 1..2 :
                  /\ Len(op.outputs[k].broadcastable) = Len(x.broadcastable) - 1
                  /\ \A i \in 1..Len(op.outputs[k].broadcastable) :
                        ~op.outputs[k].broadcastable[i]
            /\ op.outputs[1].dtype = x.dtype
            /\ op.outputs[2].dtype = axis.dtype
            /\ op.coord.kind = "None" =>
                  axis.data.elems = <<2 * (Len(x.broadcastable) - 1)>>

\* what the constructor does establish: the claim with the pattern length
\* rank(x) - 1 required of the Tensors that have an axis only
C10_WithAnAxis ==
    (op.cls = "Argmax" /\ Len(tensors[1].broadcastable) >= 1) => C10_AsStated

\* the op is built over a Tensor of rank 0, with axis -1 and patterns ()
C10_RankZero ==
    /\ op.cls = "Argmax"
    /\ raised = ""
    /\ tensors[1].broadcastable = <<>>
    /\ op.coord.kind = "None"
    /\ tensors[op.inputs[2]].data.elems = <<-2>>
    /\ op.outputs[1].broadcastable = <<>>
\* ------------------------------------------------------------- C11
\* the constructor a call names, its i / f prefix dropped
CalledCtor ==
    IF fcall.fn \in Ctors THEN fcall.fn
    ELSE SubSeq(fcall.fn, 2, Len(fcall.fn))

\* the pattern the constructor is documented to give
CtorPattern(fn) ==
    CASE fn = "scalar" -> <<>>
      [] fn = "vector" -> <<FALSE>>
      [] fn = "matrix" -> <<FALSE, FALSE>>
      [] fn = "row" -> <<TRUE, FALSE>>
      [] fn = "col" -> <<FALSE, TRUE>>

\* C11: vector(name), like ivector and fvector, returns a Tensor of pattern
\* (False,), as scalar gives (), matrix (False, False), row (True, False) and
\* col (False, True).
C11_AsStated ==
    fcall.fn # "None" =>
        /\ raised = ""
        /\ fcall.ret = Len(tensors)
        /\ tensors[fcall.ret].broadcastable = CtorPattern(CalledCtor)
        /\ tensors[fcall.ret].name = fcall.name

\* vector, ivector and fvector raise and return nothing
C11_VectorRaises ==
    /\ fcall.fn \in {"vector", "ivector", "fvector"}
    /\ raised = E_not_iterable
    /\ fcall.ret = 0
\* ------------------------------------------------------------- C12
\* the arguments agree with the Tensor handed in
ArgsAgree ==
    LET t == tensors[fcall.data.t]
    IN  /\ fcall.broadcastable.kind = "None"
           \/ (fcall.broadcastable.kind = "seq" /\ fcall.broadcastable.v = t.broadcastable)
        /\ fcall.name = "None" \/ fcall.name = t.name

\* C12: astensor on a Tensor returns that very Tensor, and changes no Tensor,
\* when the broadcastable and name arguments are absent or equal to the
\* Tensor's; otherwise it fails and returns nothing; a non-Tensor Result and
\* None are rejected. Checked on every step that calls astensor.
C12_AstensorIdentity ==
    [][(fcall'.fn = "astensor" /\ fcall'.data.kind # "array") =>
          /\ tensors' = tensors
          /\ fcall'.data.kind = "Tensor" =>
                IF ArgsAgree'
                THEN raised' = "" /\ fcall'.ret = fcall'.data.t
                ELSE raised' # "" /\ fcall'.ret = 0
          /\ fcall'.data.kind \in {"Result", "None"} =>
                raised' # "" /\ fcall'.ret = 0]_vars

\* astensor(astensor(v)): a Tensor made from a host array, with a name and
\* data, handed back to astensor with its own pattern and name
C12_Witness ==
    /\ fcall.fn = "astensor"
    /\ fcall.data.kind = "Tensor"
    /\ raised = ""
    /\ fcall.ret = 1
    /\ fcall.broadcastable = PySeq(<<TRUE>>)
    /\ fcall.name = "a"
    /\ tensors[1].data # NoneArr
\* ------------------------------------------------------------- C13
\* C13: whenever an op's constructor has raised, the op's inputs and outputs
\* have not been assigned and no output Tensor has been created for it.
C13_AsStated ==
    (op.cls # "None" /\ raised \notin {"", "not called"}) =>
        /\ ~op.installed
        /\ op.inputs = <<>>
        /\ op.outputs = <<>>

\* Gemm's alias check raises with the inputs assigned and the output Tensor made
C13_GemmInstalled ==
    /\ op.cls = "Gemm"
    /\ raised = Gemm_E_z_uniq
    /\ op.installed
    /\ op.inputs = op.args
    /\ Len(op.outputs) = 1
    /\ op.outputs[1].owner = "Gemm"
\* ------------------------------------------------------------- C14
\* the entries the caller supplied
Supplied ==
    IF op.coord.kind = "Result" THEN op.k0 ELSE op.coord.data

\* C14: after a successful Subtensor(base, index) the index payload has length
\* rank(base), the supplied entries are its prefix in order, every appended
\* entry is slice(0, sys.maxint, 1), and an index already of length
\* rank(base) is left as supplied.
C14_Padded ==
    (op.cls = "Subtensor" /\ raised = "") =>
        /\ Len(Payload) = BaseRank
        /\ SubSeq(Payload, 1, Len(Supplied)) = Supplied
        /\ \A i \in (Len(Supplied) + 1)..Len(Payload) :
              Payload[i] = [kind |-> "slice", start |-> 0, stop |-> sys_maxint, step |-> 1]
        /\ Len(Supplied) = BaseRank => Payload = Supplied

\* one integer entry supplied on a base of rank 2: one slice is appended
C14_Witness ==
    /\ op.cls = "Subtensor"
    /\ raised = ""
    /\ BaseRank = 2
    /\ Supplied = <<IntEntry(0)>>
    /\ Len(Payload) = 2
    /\ Payload[2].kind = "slice"
\* ------------------------------------------------------------- C17
\* C17: constructing a Subtensor leaves the payload of an index Result the
\* caller supplied as it was, so that the Result can be used again on a base
\* of another rank with the outcome it would have alone.
C17_AsStated == [][kdata' = kdata]_vars

\* the construction has padded the caller's Result
C17_IndexChanged ==
    /\ op.cls = "Subtensor"
    /\ op.coord.kind = "Result"
    /\ raised = ""
    /\ Len(op.k0) < BaseRank
    /\ kdata # op.k0
    /\ Len(kdata) = BaseRank
\* ------------------------------------------------------------- C15
\* the preconditions ahead of the layout code: x, y, z of rank 2; a, b, x, y,
\* z float or double; x, y, z of one type; compatible shapes; every stride a
\* positive multiple of the element size
Real(o) == o.type_num \in {PyArray_FLOAT, PyArray_DOUBLE}

PositiveMultiple(v, size) == v >= 1 /\ v % size = 0

PreconditionsHold ==
    /\ kern.x.nd = 2 /\ kern.y.nd = 2 /\ kern.z.nd = 2
    /\ Real(kern.a) /\ Real(kern.b) /\ Real(kern.x) /\ Real(kern.y) /\ Real(kern.z)
    /\ kern.x.type_num = kern.y.type_num /\ kern.y.type_num = kern.z.type_num
    /\ kern.x.dimensions[1] = kern.z.dimensions[1]
    /\ kern.x.dimensions[2] = kern.y.dimensions[1]
    /\ kern.y.dimensions[2] = kern.z.dimensions[2]
    /\ \A o \in {kern.x, kern.y, kern.z} : \A ax \in 1..2 :
          PositiveMultiple(o.strides[ax], elsize(o.type_num))

\* 0: the axis-1 stride is the element size; else 1: the axis-0 stride is;
\* else 2
TagOf(o) ==
    IF o.strides[2] = elsize(o.type_num) THEN 0
    ELSE IF o.strides[1] = elsize(o.type_num) THEN 1 ELSE 2

Finished == kern.pc \in {"done", "failed"}

ValidCodes == {0, 256, 16, 272, 1, 257, 17, 273}

\* C15: the layout code is (x_tag << 8) | (y_tag << 4) | z_tag with the tags
\* read off the strides; a gemm call is issued exactly when all three tags are
\* 0 or 1, which are the 8 valid codes, and a code with a tag 2 fails with the
\* non-unit-stride error.
C15_LayoutCode ==
    (Finished /\ PreconditionsHold) =>
        LET xt == TagOf(kern.x)
            yt == TagOf(kern.y)
            zt == TagOf(kern.z)
        IN  /\ kern.unit = 256 * xt + 16 * yt + zt
            /\ kern.gemm # NoGemmCall <=> {xt, yt, zt} \subseteq {0, 1}
            /\ kern.gemm # NoGemmCall <=> kern.unit \in ValidCodes
            /\ kern.gemm # NoGemmCall => kern.pc = "done"
            /\ 2 \in {xt, yt, zt} =>
                  kern.pc = "failed" /\ kern.err = E_unit /\ raised = E_unit

\* x and z column-major, y row-major: code 0x101, a call is issued
C15_Witness ==
    /\ kern.pc = "done"
    /\ kern.unit = 257
    /\ kern.gemm.fn = "dgemm_"
    /\ TagOf(kern.x) = 1 /\ TagOf(kern.y) = 0 /\ TagOf(kern.z) = 1

\* ------------------------------------------------------------- C16
ElemStride(o, ax) == o.strides[ax] \div elsize(o.type_num)

\* stored row-major (tag 0) or column-major (tag 1): the rows, or the columns,
\* do not overlap
StoredAsTagged(o) ==
    \/ TagOf(o) = 0 /\ (o.dimensions[1] > 1 => ElemStride(o, 1) >= o.dimensions[2])
    \/ TagOf(o) = 1 /\ (o.dimensions[2] > 1 => ElemStride(o, 2) >= o.dimensions[1])

\* the matrix an operand's strides lay over the buffer buf
MatrixOf(o, buf) ==
    [dtype |-> "float64", shape |-> o.dimensions,
     elems |-> [e \in 1..(o.dimensions[1] * o.dimensions[2]) |->
                  buf[1 + ((e - 1) \div o.dimensions[2]) * ElemStride(o, 1)
                        + ((e - 1) % o.dimensions[2]) * ElemStride(o, 2)]]]

\* what the reference evaluator leaves in z for the same matrices
ReferenceZ ==
    Gemm_impl(<<MatrixOf(kern.z, kern.z0), MatrixOf(kern.x, kern.x.data),
                MatrixOf(kern.y, kern.y.data)>>,
              1, ScalarArray(kern.a.data[1]), 2, 3, ScalarArray(kern.b.data[1])).mem[1]

\* element [i, j] of b*z0 + a*(x.y)
KernelExpected(i, j) ==
    LET x == MatrixOf(kern.x, kern.x.data)
        y == MatrixOf(kern.y, kern.y.data)
        z0 == MatrixOf(kern.z, kern.z0)
        xy == SumTo([l \in 1..x.shape[2] |-> (At(x, i, l) * At(y, l, j)) \div 2], x.shape[2])
    IN  (kern.b.data[1] * At(z0, i, j) + kern.a.data[1] * xy) \div 2

\* the places of z's buffer that hold an element of z
ZPlaces ==
    {1 + i * ElemStride(kern.z, 1) + j * ElemStride(kern.z, 2) :
        i \in 0..(kern.z.dimensions[1] - 1), j \in 0..(kern.z.dimensions[2] - 1)}

\* C16: for each valid layout code and x, y, z stored as their tags say, the
\* gemm call issued leaves in z exactly b*z0 + a*(x.y), which is what the
\* reference evaluator computes, also when a dimension is 1; the rest of z's
\* buffer is untouched.
C16_KernelComputes ==
    (kern.pc = "done" /\ StoredAsTagged(kern.x) /\ StoredAsTagged(kern.y)
                     /\ StoredAsTagged(kern.z)) =>
        LET z == MatrixOf(kern.z, kern.z.data)
        IN  /\ \A i \in 1..z.shape[1] : \A j \in 1..z.shape[2] :
                  At(z, i, j) = KernelExpected(i, j)
            /\ z = ReferenceZ
            /\ \A p \in 1..Len(kern.z0) : p \notin ZPlaces => kern.z.data[p] = kern.z0[p]
            /\ Len(kern.z.data) = Len(kern.z0)

\* code 0x100 with z a row (1 x 2), whose leading dimension is substituted
C16_Witness ==
    /\ kern.pc = "done"
    /\ kern.unit = 256
    /\ kern.z.dimensions = <<1, 2>>
    /\ kern.x.dimensions = <<1, 2>>
    /\ kern.z.strides[1] # 8 * kern.z.dimensions[2]
    /\ StoredAsTagged(kern.x) /\ StoredAsTagged(kern.y) /\ StoredAsTagged(kern.z)
    /\ kern.z.data # kern.z0

\* ------------------------------------------------------------- C18
\* C18: whenever a runtime precondition of the kernel is not met (rank, element
\* types, shapes, strides, a matrix without a unit stride), the kernel fails,
\* no gemm call has been issued, and z's buffer is as it was on entry.
C18_FailureLeavesZ ==
    (Finished /\ ~(PreconditionsHold /\ 2 \notin {TagOf(kern.x), TagOf(kern.y), TagOf(kern.z)})) =>
        /\ kern.pc = "failed"
        /\ kern.err # ""
        /\ kern.gemm = NoGemmCall
        /\ kern.z.data = kern.z0

\* z has a stride of 12 bytes, which its element size 8 does not divide
C18_Witness ==
    /\ kern.pc = "failed"
    /\ kern.err = E_stride
    /\ kern.z.type_num = PyArray_DOUBLE
    /\ kern.z.strides[1] = 12
    /\ kern.gemm = NoGemmCall
====
